---- MODULE Spec2Model ----
(***************************************************************************)
(* Hardware random-number generator sketch for the ESP32.                  *)
(*                                                                         *)
(*   analog sample, hardware word -> XOR -> low bit -> von Neumann         *)
(*   corrector -> 256-bit buffer -> SHA-256 -> hexadecimal line on Serial  *)
(*                                                                         *)
(* The repository holds three revisions of the one sketch.                 *)
(* src/sketch_gpsc.ino and src/unnamed/part_001 are the same program       *)
(* (they differ in comments only); src/unnamed/part_000 formats the line   *)
(* with sprintf after Serial.flush()/delay(10) and pauses only in the      *)
(* iterations that accepted a bit.  The variable `build` says which        *)
(* revision runs.                                                          *)
(***************************************************************************)
EXTENDS Integers, Sequences, FiniteSets, TLC

(***************************************************************************)
(* Program constants                                                       *)
(***************************************************************************)
BUFFER_BITS == 256

DigestLen == 32

\* bits of a uint32_t
WordBits == 32

WarmupReads == 100

BufferBytes == BUFFER_BITS \div 8

(***************************************************************************)
(* Bounds of the model                                                     *)
(***************************************************************************)
\* period of the analog sample stream
PatLen == 4

\* raw bits sampled in one run
MaxRaw == 1030

\* consecutive times the output sink may be found busy before one write
MaxStall == 1

(***************************************************************************)
(* The environment: the analog sampler, the hardware noise word, the sink  *)
(***************************************************************************)
Builds == {"sketch_gpsc", "part_000"}

\* 12-bit samples of the floating pin
Samples == {0, 4095}

\* A uint32_t is the function from bit position (0 the least significant) to
\* bit: the numbers of the model checker are narrower than 32 bits.
WordZero == [k \in 0..(WordBits - 1) |-> 0]

WordOnes == [k \in 0..(WordBits - 1) |-> 1]

WordTop == [k \in 0..(WordBits - 1) |-> IF k = WordBits - 1 THEN 1 ELSE 0]

\* The words esp_random() returns, as cycles that repeat.  The low bits of
\* the second cycle are 0,0,1,1,1,1: it flips some aligned pairs of raw bits
\* and not others, with a period of three pairs, so that successive blocks
\* of 256 accepted bits differ.
HwCycles == {<<WordZero>>,
             <<WordZero, WordTop, WordOnes, WordOnes, WordOnes, WordOnes>>}

Bit == {0, 1}

\* correctedBit before vonNeumannCorrector has assigned it
Uninit == 2

HexChars == <<"0", "1", "2", "3", "4", "5", "6", "7",
              "8", "9", "A", "B", "C", "D", "E", "F">>

CR == "\\r"

LF == "\\n"

(***************************************************************************)
(* Integer arithmetic of the C++ code                                      *)
(***************************************************************************)
RECURSIVE Pow2(_)
Pow2(n) == IF n = 0 THEN 1 ELSE 2 * Pow2(n - 1)

RECURSIVE BitAnd(_, _)
BitAnd(a, b) ==
    IF a = 0 \/ b = 0 THEN 0
    ELSE (IF a % 2 = 1 /\ b % 2 = 1 THEN 1 ELSE 0)
         + 2 * BitAnd(a \div 2, b \div 2)

RECURSIVE BitOr(_, _)
BitOr(a, b) ==
    IF a = 0 THEN b
    ELSE IF b = 0 THEN a
    ELSE (IF a % 2 = 1 \/ b % 2 = 1 THEN 1 ELSE 0)
         + 2 * BitOr(a \div 2, b \div 2)

RECURSIVE BitOf(_, _)
BitOf(n, k) == IF k = 0 THEN n % 2 ELSE BitOf(n \div 2, k - 1)

\* a non-negative int converted to uint32_t
ToWord(n) == [k \in 0..(WordBits - 1) |-> BitOf(n, k)]

\* w << 1 on a uint32_t: the top bit is lost
WordShl1(w) == [k \in 0..(WordBits - 1) |-> IF k = 0 THEN 0 ELSE w[k - 1]]

WordOr(a, b) ==
    [k \in 0..(WordBits - 1) |-> IF a[k] = 1 \/ b[k] = 1 THEN 1 ELSE 0]

WordXor(a, b) ==
    [k \in 0..(WordBits - 1) |-> IF a[k] # b[k] THEN 1 ELSE 0]

WordAnd(a, b) ==
    [k \in 0..(WordBits - 1) |-> IF a[k] = 1 /\ b[k] = 1 THEN 1 ELSE 0]

(***************************************************************************)
(* State                                                                   *)
(***************************************************************************)
VARIABLES
    build,          \* which revision of the sketch runs
    adcPattern,     \* environment: the samples analogRead returns, cyclically
    hwCycle,        \* environment: the words esp_random returns, cyclically
    adcReads,       \* environment: analogRead calls so far
    hwReads,        \* environment: esp_random calls so far
    pc,             \* position of the program
    entropyBuffer,  \* uint8_t entropyBuffer[BUFFER_BITS / 8]
    collectedBits,  \* size_t collectedBits
    lastBit,        \* bool lastBit
    hasLastBit,     \* bool hasLastBit
    adcSeed,        \* static uint32_t adcSeed of readHybridNoiseBit
    rawBit,         \* loop(): bool rawBit
    vnReturn,       \* loop(): what vonNeumannCorrector returned
    correctedBit,   \* loop(): bool correctedBit (Uninit until assigned)
    digest,         \* hashAndOutput(): uint8_t digest[32]
    i,              \* hashAndOutput(): the loop index of the encoder
    outputBuffer,   \* hashAndOutput() of part_000: char outputBuffer[65]
    serialOut,      \* the characters written to Serial
    stall,          \* environment: times the sink was busy since the last write
    outOfBounds,    \* a write outside entropyBuffer has happened
    rawCount,       \* history: raw bits sampled since startup
    prevRaw,        \* history: the raw bit sampled before rawBit
    alternating,    \* history: the raw bits so far are 0,1,1,0,0,1,1,0,...
    unequalPairs,   \* history: the aligned pairs of raw bits so far are unequal
    constant,       \* history: the raw bits so far are all the same
    unequalCount,   \* history: aligned pairs of unequal raw bits so far
    accepted,       \* history: the corrector's outputs since startup
    resetAt,        \* history: Len(accepted) at the last reset of the buffer
    emitAt          \* history: rawCount at each line written

vars == <<build, adcPattern, hwCycle, adcReads, hwReads, pc, entropyBuffer,
          collectedBits, lastBit, hasLastBit, adcSeed, rawBit, vnReturn,
          correctedBit, digest, i, outputBuffer, serialOut, stall, outOfBounds,
          rawCount, prevRaw, alternating, unequalPairs, constant,
          unequalCount, accepted, resetAt, emitAt>>

\* what is known of the raw stream
stream == <<rawCount, prevRaw, alternating, unequalPairs, constant,
            unequalCount>>

env == <<build, adcPattern, hwCycle>>

corrector == <<lastBit, hasLastBit>>

accumulator == <<entropyBuffer, collectedBits, outOfBounds>>

locals == <<digest, i, outputBuffer>>

ZeroBuffer == [j \in 0..(BufferBytes - 1) |-> 0]

ZeroDigest == [j \in 0..(DigestLen - 1) |-> 0]

Init ==
    /\ build \in Builds
    /\ adcPattern \in [0..(PatLen - 1) -> Samples]
    /\ hwCycle \in HwCycles
    /\ adcReads = 0
    /\ hwReads = 0
    /\ pc = "setup"
    /\ entropyBuffer = ZeroBuffer
    /\ collectedBits = 0
    /\ lastBit = 0
    /\ hasLastBit = FALSE
    /\ adcSeed = WordZero
    /\ rawBit = 0
    /\ vnReturn = FALSE
    /\ correctedBit = Uninit
    /\ digest = ZeroDigest
    /\ i = 0
    /\ outputBuffer = <<>>
    /\ serialOut = <<>>
    /\ stall = 0
    /\ outOfBounds = FALSE
    /\ rawCount = 0
    /\ prevRaw = 0
    /\ alternating = TRUE
    /\ unequalPairs = TRUE
    /\ constant = TRUE
    /\ unequalCount = 0
    /\ accepted = <<>>
    /\ resetAt = 0
    /\ emitAt = <<>>

(***************************************************************************)
(* setup(): the port is opened and the converter warmed up by 100 reads    *)
(* whose values are dropped.                                               *)
(***************************************************************************)
Setup ==
    /\ pc = "setup"
    /\ adcReads' = adcReads + WarmupReads
    /\ pc' = "read"
    /\ UNCHANGED <<env, hwReads, accumulator, corrector, adcSeed, rawBit,
                   vnReturn, correctedBit, locals, serialOut, stall,
                   stream, accepted, resetAt, emitAt>>

AnalogRead == adcPattern[adcReads % PatLen]

EspRandom == hwCycle[(hwReads % Len(hwCycle)) + 1]

(***************************************************************************)
(* 1. readHybridNoiseBit                                                   *)
(***************************************************************************)
\* the register updated without the shift: adcSeed |= (adcRaw & 0x01)
ShiftIn_NoShift(seed, adcRaw) == WordOr(seed, ToWord(BitAnd(adcRaw, 1)))

\* adcSeed = (adcSeed << 1) | (adcRaw & 0x01)
ShiftIn(seed, adcRaw) == WordOr(WordShl1(seed), ToWord(BitAnd(adcRaw, 1)))

\* mixed = adcSeed ^ hwRandom; return (mixed & 0x01), converted to bool
MixedBit(seed, hwRandom) ==
    IF WordAnd(WordXor(seed, hwRandom), ToWord(1)) = WordZero THEN 0 ELSE 1

\* the k-th bit (from 1) of the stream 0,1,1,0,0,1,1,0,...
AltBit(k) == IF k % 4 \in {2, 3} THEN 1 ELSE 0

ReadHybridNoiseBit ==
    /\ pc = "read"
    /\ rawCount < MaxRaw
    /\ adcSeed' = ShiftIn(adcSeed, AnalogRead)
    /\ rawBit' = MixedBit(adcSeed', EspRandom)
    /\ adcReads' = adcReads + 1
    /\ hwReads' = hwReads + 1
    /\ rawCount' = rawCount + 1
    /\ prevRaw' = rawBit
    /\ alternating' = (alternating /\ rawBit' = AltBit(rawCount'))
    /\ unequalPairs' = (unequalPairs /\ (rawCount' % 2 = 0 => rawBit' # rawBit))
    /\ constant' = (constant /\ (rawCount > 0 => rawBit' = rawBit))
    /\ unequalCount' = IF rawCount' % 2 = 0 /\ rawBit' # rawBit
                       THEN unequalCount + 1 ELSE unequalCount
    /\ correctedBit' = Uninit
    /\ pc' = "correct"
    /\ UNCHANGED <<env, accumulator, corrector, vnReturn, locals, serialOut,
                   stall, accepted, resetAt, emitAt>>

(***************************************************************************)
(* 2. vonNeumannCorrector(currentBit, outputBit)                           *)
(* The result: the two globals, the referenced outputBit, the return value *)
(***************************************************************************)
\* the corrector with the first bit of the pair as its output
VonNeumannCorrector_FirstBit(has, last, currentBit, outputBit) ==
    IF ~has
    THEN [lastBit |-> currentBit, hasLastBit |-> TRUE,
          outputBit |-> outputBit, ret |-> FALSE]
    ELSE IF last # currentBit
    THEN [lastBit |-> last, hasLastBit |-> FALSE,
          outputBit |-> last, ret |-> TRUE]
    ELSE [lastBit |-> last, hasLastBit |-> FALSE,
          outputBit |-> outputBit, ret |-> FALSE]

\* the corrector with overlapping pairs: the second bit of an unequal pair
\* stays pending as the first bit of the next
VonNeumannCorrector_Overlap(has, last, currentBit, outputBit) ==
    IF ~has
    THEN [lastBit |-> currentBit, hasLastBit |-> TRUE,
          outputBit |-> outputBit, ret |-> FALSE]
    ELSE IF last # currentBit
    THEN [lastBit |-> currentBit, hasLastBit |-> TRUE,
          outputBit |-> currentBit, ret |-> TRUE]
    ELSE [lastBit |-> last, hasLastBit |-> FALSE,
          outputBit |-> outputBit, ret |-> FALSE]

\* the corrector with the comparison turned round: equal pairs give a bit
VonNeumannCorrector_EqualPairs(has, last, currentBit, outputBit) ==
    IF ~has
    THEN [lastBit |-> currentBit, hasLastBit |-> TRUE,
          outputBit |-> outputBit, ret |-> FALSE]
    ELSE IF last = currentBit
    THEN [lastBit |-> last, hasLastBit |-> FALSE,
          outputBit |-> currentBit, ret |-> TRUE]
    ELSE [lastBit |-> last, hasLastBit |-> FALSE,
          outputBit |-> outputBit, ret |-> FALSE]

\* the corrector that keeps the second bit of an equal pair pending
VonNeumannCorrector_EqualStaysArmed(has, last, currentBit, outputBit) ==
    IF ~has
    THEN [lastBit |-> currentBit, hasLastBit |-> TRUE,
          outputBit |-> outputBit, ret |-> FALSE]
    ELSE IF last # currentBit
    THEN [lastBit |-> last, hasLastBit |-> FALSE,
          outputBit |-> currentBit, ret |-> TRUE]
    ELSE [lastBit |-> currentBit, hasLastBit |-> TRUE,
          outputBit |-> outputBit, ret |-> FALSE]

VonNeumannCorrector(has, last, currentBit, outputBit) ==
    IF ~has
    THEN [lastBit |-> currentBit, hasLastBit |-> TRUE,
          outputBit |-> outputBit, ret |-> FALSE]
    ELSE IF last # currentBit
    THEN [lastBit |-> last, hasLastBit |-> FALSE,
          outputBit |-> currentBit, ret |-> TRUE]
    ELSE [lastBit |-> last, hasLastBit |-> FALSE,
          outputBit |-> outputBit, ret |-> FALSE]

\* loop(): where an iteration goes when the corrector returned false
AfterRejected == IF build = "part_000" THEN "read" ELSE "delay"

\* loop() without the test of the corrector's return value
Correct_AlwaysPush ==
    /\ pc = "correct"
    /\ LET r == VonNeumannCorrector(hasLastBit, lastBit, rawBit, correctedBit)
       IN /\ lastBit' = r.lastBit
          /\ hasLastBit' = r.hasLastBit
          /\ correctedBit' = r.outputBit
          /\ vnReturn' = r.ret
          /\ accepted' = IF r.ret THEN Append(accepted, r.outputBit)
                         ELSE accepted
          /\ pc' = "pack"
    /\ UNCHANGED <<env, adcReads, hwReads, accumulator, adcSeed, rawBit,
                   locals, serialOut, stall, stream, resetAt,
                   emitAt>>

Correct ==
    /\ pc = "correct"
    /\ LET r == VonNeumannCorrector(hasLastBit, lastBit, rawBit, correctedBit)
       IN /\ lastBit' = r.lastBit
          /\ hasLastBit' = r.hasLastBit
          /\ correctedBit' = r.outputBit
          /\ vnReturn' = r.ret
          /\ accepted' = IF r.ret THEN Append(accepted, r.outputBit)
                         ELSE accepted
          /\ pc' = IF r.ret THEN "pack" ELSE AfterRejected
    /\ UNCHANGED <<env, adcReads, hwReads, accumulator, adcSeed, rawBit,
                   locals, serialOut, stall, stream, resetAt,
                   emitAt>>

(***************************************************************************)
(* 3. packBitIntoBuffer(bit)                                               *)
(* The array has BufferBytes elements; a write at another index lands      *)
(* outside it and is recorded in outOfBounds.                              *)
(***************************************************************************)
SetBit(buf, byteIndex, bitIndex) ==
    [buf EXCEPT ![byteIndex] = BitOr(@, Pow2(bitIndex)) % 256]

\* the packing with the most significant bit of a byte first
PackBitIntoBuffer_MsbFirst(buf, n, bit) ==
    LET byteIndex == n \div 8
        bitIndex == 7 - (n % 8)
    IN [buffer |-> IF bit = 1 /\ byteIndex \in DOMAIN buf
                   THEN SetBit(buf, byteIndex, bitIndex)
                   ELSE buf,
        outside |-> bit = 1 /\ byteIndex \notin DOMAIN buf,
        collectedBits |-> n + 1]

\* the packing without collectedBits++
PackBitIntoBuffer_NoIncrement(buf, n, bit) ==
    LET byteIndex == n \div 8
        bitIndex == n % 8
    IN [buffer |-> IF bit = 1 /\ byteIndex \in DOMAIN buf
                   THEN SetBit(buf, byteIndex, bitIndex)
                   ELSE buf,
        outside |-> bit = 1 /\ byteIndex \notin DOMAIN buf,
        collectedBits |-> n]

PackBitIntoBuffer(buf, n, bit) ==
    LET byteIndex == n \div 8
        bitIndex == n % 8
    IN [buffer |-> IF bit = 1 /\ byteIndex \in DOMAIN buf
                   THEN SetBit(buf, byteIndex, bitIndex)
                   ELSE buf,
        outside |-> bit = 1 /\ byteIndex \notin DOMAIN buf,
        collectedBits |-> n + 1]

\* an unassigned bool holds either value
BitValues(b) == IF b = Uninit THEN Bit ELSE {b}

\* A store past the end of the array is undefined: it lands on one of the
\* objects declared after the array (lines 16-18) or on memory that holds
\* none of them.
Neighbours == {"other", "collectedBits", "lastBit", "hasLastBit"}

\* collectedBits after a store of bit (n % 8) into the byte of it that lies
\* at entropyBuffer[n \div 8]
StoreIntoCount(n) ==
    BitOr(n, Pow2(8 * (((n \div 8) - BufferBytes) % 4) + (n % 8)))

Pack ==
    /\ pc = "pack"
    /\ \E bit \in BitValues(correctedBit) :
         LET r == PackBitIntoBuffer(entropyBuffer, collectedBits, bit)
         IN \E hit \in (IF r.outside THEN Neighbours ELSE {"none"}) :
              /\ entropyBuffer' = r.buffer
              /\ collectedBits' =
                    IF hit = "collectedBits"
                    THEN StoreIntoCount(collectedBits)
                         + (r.collectedBits - collectedBits)
                    ELSE r.collectedBits
              /\ lastBit' = IF hit = "lastBit" THEN 1 ELSE lastBit
              /\ hasLastBit' = IF hit = "hasLastBit" THEN TRUE ELSE hasLastBit
              /\ outOfBounds' = (outOfBounds \/ r.outside)
    /\ pc' = "hash"
    /\ UNCHANGED <<env, adcReads, hwReads, adcSeed, rawBit,
                   vnReturn, correctedBit, locals, serialOut, stall,
                   stream, accepted, resetAt, emitAt>>

(***************************************************************************)
(* 4. hashAndOutput                                                        *)
(***************************************************************************)
\* the early return decided on the size in bytes
NotFull_Bytes(n) == n < BufferBytes

\* the early return taken at 256 bits too
NotFull_OffByOne(n) == n <= BUFFER_BITS

\* the early return not taken at 255 bits
NotFull_Early(n) == n < BUFFER_BITS - 1

\* if (collectedBits < BUFFER_BITS) return;
NotFull(n) == n < BUFFER_BITS

\* mbedtls_sha256 over the 32 bytes of the buffer.  The library is taken as
\* a function of the buffer alone that sends different buffers to different
\* digests; this one moves the bytes around and shifts each by its index.
Sha256(buf) ==
    [j \in 0..(DigestLen - 1) |->
        (buf[(5 * j + 3) % BufferBytes] + 7 * j) % 256]

HashAndOutput_Return ==
    /\ pc = "hash"
    /\ NotFull(collectedBits)
    /\ pc' = "delay"
    /\ UNCHANGED <<env, adcReads, hwReads, accumulator, corrector, adcSeed,
                   rawBit, vnReturn, correctedBit, locals, serialOut, stall,
                   stream, accepted, resetAt, emitAt>>

\* the buffer cleared as soon as the digest is computed, before the output
HashAndOutput_Digest_ResetFirst ==
    /\ pc = "hash"
    /\ ~NotFull(collectedBits)
    /\ digest' = Sha256(entropyBuffer)
    /\ i' = 0
    /\ outputBuffer' = <<>>
    /\ collectedBits' = 0
    /\ entropyBuffer' = ZeroBuffer
    /\ pc' = IF build = "part_000" THEN "flush" ELSE "print"
    /\ UNCHANGED <<env, adcReads, hwReads, outOfBounds, corrector, adcSeed,
                   rawBit, vnReturn, correctedBit, serialOut, stall,
                   stream, accepted, resetAt, emitAt>>

HashAndOutput_Digest ==
    /\ pc = "hash"
    /\ ~NotFull(collectedBits)
    /\ digest' = Sha256(entropyBuffer)
    /\ i' = 0
    /\ outputBuffer' = <<>>
    /\ pc' = IF build = "part_000" THEN "flush" ELSE "print"
    /\ UNCHANGED <<env, adcReads, hwReads, accumulator, corrector, adcSeed,
                   rawBit, vnReturn, correctedBit, serialOut, stall,
                   stream, accepted, resetAt, emitAt>>

(***************************************************************************)
(* The encoders.  Print::print(n, HEX) writes the digits of n in base 16,  *)
(* upper case, without leading zeros; sprintf "%02X" writes them upper     *)
(* case, padded with zeros to two characters.                              *)
(***************************************************************************)
RECURSIVE PrintNumber(_, _)
PrintNumber(n, base) ==
    IF n < base THEN <<HexChars[n + 1]>>
    ELSE Append(PrintNumber(n \div base, base), HexChars[(n % base) + 1])

\* the byte printed without the leading zero
PrintByte_NoPad(b) == PrintNumber(b, 16)

\* if (digest[i] < 0x10) Serial.print("0"); Serial.print(digest[i], HEX);
PrintByte(b) == (IF b < 16 THEN <<"0">> ELSE <<>>) \o PrintNumber(b, 16)

\* sprintf(&outputBuffer[pos], "%02X", digest[i])
Sprintf02X(b) ==
    LET digits == PrintNumber(b, 16)
    IN IF Len(digits) < 2 THEN <<"0">> \o digits ELSE digits

\* outputBuffer[64] = '\0': the string ends at index 64 at the latest
Terminate(str) == IF Len(str) > 64 THEN SubSeq(str, 1, 64) ELSE str

\* Serial.println: the text, then carriage return and line feed
Println(text) == text \o <<CR, LF>>

\* the sink takes no character now: the write blocks
SinkBusy ==
    /\ pc \in {"print", "println", "flush", "printbuf"}
    /\ stall < MaxStall
    /\ stall' = stall + 1
    /\ UNCHANGED <<env, adcReads, hwReads, pc, accumulator, corrector,
                   adcSeed, rawBit, vnReturn, correctedBit, locals, serialOut,
                   stream, accepted, resetAt, emitAt>>

\* sketch_gpsc.ino 80-83: one turn of the printing loop
HashAndOutput_Print ==
    /\ pc = "print"
    /\ i < DigestLen
    /\ serialOut' = serialOut \o PrintByte(digest[i])
    /\ i' = i + 1
    /\ stall' = 0
    /\ pc' = IF i + 1 < DigestLen THEN "print" ELSE "println"
    /\ UNCHANGED <<env, adcReads, hwReads, accumulator, corrector, adcSeed,
                   rawBit, vnReturn, correctedBit, digest, outputBuffer,
                   stream, accepted, resetAt, emitAt>>

\* sketch_gpsc.ino 84
HashAndOutput_Println ==
    /\ pc = "println"
    /\ serialOut' = Println(serialOut)
    /\ emitAt' = Append(emitAt, rawCount)
    /\ stall' = 0
    /\ pc' = "reset"
    /\ UNCHANGED <<env, adcReads, hwReads, accumulator, corrector, adcSeed,
                   rawBit, vnReturn, correctedBit, locals, stream,
                   accepted, resetAt>>

\* part_000 79-80: Serial.flush(); delay(10);
HashAndOutput_Flush ==
    /\ pc = "flush"
    /\ stall' = 0
    /\ pc' = "sprintf"
    /\ UNCHANGED <<env, adcReads, hwReads, accumulator, corrector, adcSeed,
                   rawBit, vnReturn, correctedBit, locals, serialOut,
                   stream, accepted, resetAt, emitAt>>

\* part_000 85-88: one turn of the formatting loop, the terminator after the
\* last one
HashAndOutput_Sprintf ==
    /\ pc = "sprintf"
    /\ i < DigestLen
    /\ LET str == outputBuffer \o Sprintf02X(digest[i])
       IN outputBuffer' = IF i + 1 < DigestLen THEN str ELSE Terminate(str)
    /\ i' = i + 1
    /\ pc' = IF i + 1 < DigestLen THEN "sprintf" ELSE "printbuf"
    /\ UNCHANGED <<env, adcReads, hwReads, accumulator, corrector, adcSeed,
                   rawBit, vnReturn, correctedBit, digest, serialOut, stall,
                   stream, accepted, resetAt, emitAt>>

\* part_000 91: Serial.println(outputBuffer)
HashAndOutput_PrintBuffer ==
    /\ pc = "printbuf"
    /\ serialOut' = serialOut \o Println(outputBuffer)
    /\ emitAt' = Append(emitAt, rawCount)
    /\ stall' = 0
    /\ pc' = "reset"
    /\ UNCHANGED <<env, adcReads, hwReads, accumulator, corrector, adcSeed,
                   rawBit, vnReturn, correctedBit, locals, stream,
                   accepted, resetAt>>

\* the reset without the memset
HashAndOutput_Reset_NoMemset ==
    /\ pc = "reset"
    /\ collectedBits' = 0
    /\ resetAt' = Len(accepted)
    /\ pc' = "delay"
    /\ UNCHANGED <<env, adcReads, hwReads, entropyBuffer, outOfBounds,
                   corrector, adcSeed, rawBit, vnReturn, correctedBit, locals,
                   serialOut, stall, stream, accepted, emitAt>>

\* the reset that clears the buffer and keeps the count
HashAndOutput_Reset_KeepCount ==
    /\ pc = "reset"
    /\ entropyBuffer' = ZeroBuffer
    /\ resetAt' = Len(accepted)
    /\ pc' = "delay"
    /\ UNCHANGED <<env, adcReads, hwReads, collectedBits, outOfBounds,
                   corrector, adcSeed, rawBit, vnReturn, correctedBit, locals,
                   serialOut, stall, stream, accepted, emitAt>>

\* collectedBits = 0; memset(entropyBuffer, 0, sizeof(entropyBuffer));
HashAndOutput_Reset ==
    /\ pc = "reset"
    /\ collectedBits' = 0
    /\ entropyBuffer' = ZeroBuffer
    /\ resetAt' = Len(accepted)
    /\ pc' = "delay"
    /\ UNCHANGED <<env, adcReads, hwReads, outOfBounds, corrector, adcSeed,
                   rawBit, vnReturn, correctedBit, locals, serialOut, stall,
                   stream, accepted, emitAt>>

(***************************************************************************)
(* loop(): delayMicroseconds, the end of an iteration                      *)
(***************************************************************************)
Delay ==
    /\ pc = "delay"
    /\ pc' = "read"
    /\ UNCHANGED <<env, adcReads, hwReads, accumulator, corrector, adcSeed,
                   rawBit, vnReturn, correctedBit, locals, serialOut, stall,
                   stream, accepted, resetAt, emitAt>>

Next ==
    \/ Setup
    \/ ReadHybridNoiseBit
    \/ Correct
    \/ Pack
    \/ HashAndOutput_Return
    \/ HashAndOutput_Digest
    \/ SinkBusy
    \/ HashAndOutput_Print
    \/ HashAndOutput_Println
    \/ HashAndOutput_Flush
    \/ HashAndOutput_Sprintf
    \/ HashAndOutput_PrintBuffer
    \/ HashAndOutput_Reset
    \/ Delay

Spec == Init /\ [][Next]_vars

(***************************************************************************)
(* Reference definitions of the properties                                 *)
(***************************************************************************)
\* the corrector's outputs since the buffer was last reset
SinceReset == SubSeq(accepted, resetAt + 1, Len(accepted))

\* the byte whose bit b is bits[first + b], for b in 0..7
DirectByte(bits, first) ==
    bits[first] + 2 * bits[first + 1] + 4 * bits[first + 2]
    + 8 * bits[first + 3] + 16 * bits[first + 4] + 32 * bits[first + 5]
    + 64 * bits[first + 6] + 128 * bits[first + 7]

\* the buffer built directly from 256 bits
DirectBuffer(bits) ==
    [j \in 0..(BufferBytes - 1) |-> DirectByte(bits, 8 * j + 1)]

\* the positions of the program inside hashAndOutput, past the early return
Emitting == {"print", "println", "flush", "sprintf", "printbuf", "reset"}

\* the positions of an iteration past the call of vonNeumannCorrector
AfterCorrect == {"pack", "hash", "delay", "read"} \cup Emitting

\* the raw bits the corrector has been called with
Processed == IF pc = "correct" THEN rawCount - 1 ELSE rawCount

Last(seq) == seq[Len(seq)]

(***************************************************************************)
(* C1  After a call of the corrector that started Idle (it leaves          *)
(* hasLastBit set) there is no output.  After the call that follows it,    *)
(* with the pair (prevRaw, rawBit), there is an output iff the two bits    *)
(* differ, and the output is the second bit: (0,0) none, (0,1) 1, (1,0) 0, *)
(* (1,1) none.  A call without output leaves correctedBit unassigned.      *)
(***************************************************************************)
C1_DebiaserPairs ==
    (pc \in AfterCorrect /\ rawCount > 0) =>
        /\ hasLastBit => (~vnReturn /\ rawCount % 2 = 1)
        /\ ~hasLastBit =>
             /\ rawCount % 2 = 0
             /\ vnReturn <=> (prevRaw # rawBit)
             /\ vnReturn => correctedBit = rawBit
        /\ ~vnReturn => correctedBit = Uninit
        /\ correctedBit \in {0, 1, Uninit}

\* the pair (0,1) has been fed from Idle and has given 1
C1_Witness ==
    /\ pc = "pack"
    /\ ~hasLastBit
    /\ prevRaw = 0
    /\ rawBit = 1
    /\ vnReturn
    /\ correctedBit = 1

(***************************************************************************)
(* C2  In every state, with k = collectedBits: for i < k, bit i of the     *)
(* buffer (byte i / 8, bit position i % 8, least significant first) is the *)
(* i-th bit the corrector gave since the last reset, and for k <= i < 256  *)
(* bit i is zero.  Stated byte by byte: each byte is the sum of 2^b over   *)
(* its positions b below k whose accepted bit is 1.                        *)
(***************************************************************************)
RECURSIVE PartialByte(_, _, _)
PartialByte(bits, first, n) ==
    IF n = 0 THEN 0
    ELSE bits[first] + 2 * PartialByte(bits, first + 1, n - 1)

\* byte j of the buffer that holds the first k bits of bits[from + 1 ..]
ExpectedByte(bits, from, k, j) ==
    IF k <= 8 * j THEN 0
    ELSE IF k >= 8 * j + 8 THEN DirectByte(bits, from + 8 * j + 1)
    ELSE PartialByte(bits, from + 8 * j + 1, k - 8 * j)

C2_BufferLayout ==
    /\ resetAt + collectedBits <= Len(accepted)
    /\ \A j \in 0..(BufferBytes - 1) :
         entropyBuffer[j] = ExpectedByte(accepted, resetAt, collectedBits, j)

\* a full buffer that equals the direct construction and holds a pushed
\* false bit between true ones
C2_Witness ==
    /\ collectedBits = BUFFER_BITS
    /\ Len(SinceReset) = BUFFER_BITS
    /\ entropyBuffer = DirectBuffer(SinceReset)
    /\ \E k \in 1..(BUFFER_BITS - 2) :
         /\ SinceReset[k] = 1
         /\ SinceReset[k + 1] = 0
         /\ SinceReset[k + 2] = 1

(***************************************************************************)
(* C3  collectedBits stays within 0..256; packBitIntoBuffer is never       *)
(* entered with collectedBits = 256, so its byte index is within 0..31 and *)
(* nothing is written outside the array; a buffer of 256 bits exists only  *)
(* inside the hashAndOutput call that drains it.                           *)
(***************************************************************************)
C3_NeverOverCapacity ==
    /\ collectedBits \in 0..BUFFER_BITS
    /\ pc = "pack" =>
         /\ collectedBits < BUFFER_BITS
         /\ collectedBits \div 8 \in 0..(BufferBytes - 1)
    /\ ~outOfBounds
    /\ collectedBits = BUFFER_BITS => pc \in {"hash"} \cup Emitting

\* a push into the buffer that the draining call has emptied
C3_Witness ==
    /\ pc = "hash"
    /\ Len(emitAt) = 1
    /\ collectedBits = 1

(***************************************************************************)
(* C4  While hashAndOutput is past its early return (the digest computed,  *)
(* the line being written), collectedBits is 256, the corrector has given  *)
(* exactly 256 bits since the last reset, the buffer holds exactly these,  *)
(* and the digest is the hash of them; the lines written never outnumber   *)
(* the full blocks of accepted bits.                                       *)
(***************************************************************************)
C4_NoPartialDigest ==
    /\ pc \in Emitting =>
         /\ Len(SinceReset) = BUFFER_BITS
         /\ collectedBits = BUFFER_BITS
         /\ entropyBuffer = DirectBuffer(SinceReset)
         /\ digest = Sha256(DirectBuffer(SinceReset))
    /\ Len(emitAt) * BUFFER_BITS <= Len(accepted)
    /\ serialOut # <<>> => Len(accepted) >= BUFFER_BITS

\* the line of a digest is being written
C4_Witness ==
    /\ pc \in {"println", "printbuf"}
    /\ collectedBits = BUFFER_BITS
    /\ serialOut # <<>>

(***************************************************************************)
(* C5  When a call of hashAndOutput that wrote a digest has returned,      *)
(* collectedBits is 0 and the 32 bytes of the buffer are 0.                *)
(***************************************************************************)
C5_ResetAfterEmit ==
    (pc \in {"delay", "read"} /\ emitAt # <<>> /\ Last(emitAt) = rawCount) =>
        /\ collectedBits = 0
        /\ \A j \in 0..(BufferBytes - 1) : entropyBuffer[j] = 0

\* the call has returned, and the buffer it hashed was not zero
C5_Witness ==
    /\ pc = "delay"
    /\ emitAt # <<>>
    /\ Last(emitAt) = rawCount
    /\ digest # Sha256(ZeroBuffer)
    /\ collectedBits = 0

(***************************************************************************)
(* The reference encoding of a digest: per byte two characters, the high   *)
(* nibble first, upper case; after the 32 bytes the line break.            *)
(***************************************************************************)
HexPair(b) == <<HexChars[(b \div 16) + 1], HexChars[(b % 16) + 1]>>

RECURSIVE HexText(_, _)
HexText(d, n) ==
    IF n = 0 THEN <<>> ELSE HexText(d, n - 1) \o HexPair(d[n - 1])

RefLine(d) == HexText(d, DigestLen) \o <<CR, LF>>

LineLen == 2 * DigestLen + 2

\* the n-th line written to Serial
Line(n) == SubSeq(serialOut, LineLen * (n - 1) + 1, LineLen * n)

\* the n-th block of 256 accepted bits since startup
Block(n) == SubSeq(accepted, BUFFER_BITS * (n - 1) + 1, BUFFER_BITS * n)

\* the positions at which no call of hashAndOutput is under way or due
BetweenCalls == {"setup", "read", "correct", "delay"}

(***************************************************************************)
(* C6  However often the sink is busy, the n-th line written is the        *)
(* encoded hash of the accepted bits 256(n-1) .. 256n-1, for every n; the  *)
(* buffer restarts exactly where the block before it ended; and between    *)
(* calls every full block of accepted bits has its one line.               *)
(***************************************************************************)
C6_NoBitLostOrDuplicated ==
    /\ \A n \in 1..Len(emitAt) :
         /\ Len(accepted) >= BUFFER_BITS * n
         /\ Len(serialOut) >= LineLen * n
         /\ Line(n) = RefLine(Sha256(DirectBuffer(Block(n))))
    /\ resetAt = BUFFER_BITS * (IF pc = "reset" THEN Len(emitAt) - 1
                                ELSE Len(emitAt))
    /\ pc \in BetweenCalls \cup {"reset"} =>
         /\ Len(emitAt) = Len(accepted) \div BUFFER_BITS
         /\ Len(serialOut) = LineLen * Len(emitAt)

\* the second line is held up by a busy sink after the first was written,
\* and the two blocks differ
C6_Witness ==
    /\ pc \in {"println", "printbuf"}
    /\ stall > 0
    /\ Len(emitAt) = 1
    /\ Len(accepted) = 2 * BUFFER_BITS
    /\ Block(1) # Block(2)

(***************************************************************************)
(* C7  A call of hashAndOutput with collectedBits < 256 returns at once:   *)
(* the buffer, collectedBits, the corrector's state, the shift register    *)
(* and the output are unchanged and no digest is computed.                 *)
(***************************************************************************)
C7_EarlyReturnNoEffect ==
    [][(pc = "hash" /\ collectedBits < BUFFER_BITS) =>
          /\ pc' = "delay"
          /\ UNCHANGED <<entropyBuffer, collectedBits, outOfBounds, lastBit,
                         hasLastBit, adcSeed, serialOut, digest, emitAt>>]_vars

\* such a call has returned, with bits in the buffer
C7_Witness ==
    /\ pc = "delay"
    /\ vnReturn
    /\ collectedBits \in 1..(BUFFER_BITS - 1)
    /\ entropyBuffer # ZeroBuffer
    /\ serialOut = <<>>

(***************************************************************************)
(* C8  While the aligned pairs of raw bits are all unequal, every pair is  *)
(* accepted and the lines are written on the raw bits 512, 1024, ...: one  *)
(* per 512 raw bits.  With the stream 0,1,1,0,0,1,1,0,... no line is       *)
(* written before the 512th raw bit, and after it 256 bits are accepted    *)
(* and exactly one line is written, on the 512th raw bit.                  *)
(***************************************************************************)
C8_AlternatingPairs ==
    /\ unequalPairs =>
         /\ Len(accepted) = Processed \div 2
         /\ \A n \in 1..Len(emitAt) : emitAt[n] = 2 * BUFFER_BITS * n
         /\ pc \in BetweenCalls \cup {"reset"} =>
              Len(emitAt) = Processed \div (2 * BUFFER_BITS)
    /\ alternating =>
         /\ unequalPairs
         /\ Processed < 2 * BUFFER_BITS => (emitAt = <<>> /\ serialOut = <<>>)
         /\ (Processed = 2 * BUFFER_BITS /\ pc \in {"reset", "delay", "read"}) =>
              /\ Len(accepted) = BUFFER_BITS
              /\ emitAt = <<2 * BUFFER_BITS>>
              /\ Len(serialOut) = LineLen

\* 512 raw bits of 0,1,1,0,... are through and the one line is written
C8_Witness ==
    /\ alternating
    /\ rawCount = 2 * BUFFER_BITS
    /\ pc = "delay"
    /\ Len(accepted) = BUFFER_BITS
    /\ emitAt = <<2 * BUFFER_BITS>>

(***************************************************************************)
(* C9  While the raw bits are all the same (all zero, or all one), no bit  *)
(* is accepted: packBitIntoBuffer and hashAndOutput are not called,        *)
(* collectedBits is 0, the buffer is zero and nothing is written.          *)
(***************************************************************************)
C9_ConstantStream ==
    constant =>
        /\ accepted = <<>>
        /\ ~vnReturn
        /\ pc \in BetweenCalls
        /\ collectedBits = 0
        /\ entropyBuffer = ZeroBuffer
        /\ serialOut = <<>>
        /\ emitAt = <<>>

\* an all-zero stream has run to the bound
C9_Witness ==
    /\ constant
    /\ rawBit = 0
    /\ rawCount = MaxRaw
    /\ ~hasLastBit
    /\ accepted = <<>>

(***************************************************************************)
(* The encoders on their own.  SHA-256 can give any 32 bytes, the function *)
(* that stands for it here cannot; so the encoders are also run from the   *)
(* state in which hashAndOutput has just computed its first digest (the    *)
(* raw stream 0,1,1,0,... taken), with the digest drawn from TestDigests.  *)
(***************************************************************************)
TestBytes == {0, 9, 10, 15, 16, 127, 160, 255}

TestDigests ==
    {[j \in 0..(DigestLen - 1) |-> IF j % 2 = 0 THEN a ELSE b] :
        a \in TestBytes, b \in TestBytes}

\* the accepted bits of the stream 0,1,1,0,...: 1,0,1,0,...
AltAccepted == [k \in 1..BUFFER_BITS |-> k % 2]

InitHex ==
    /\ build \in Builds
    /\ adcPattern = [k \in 0..(PatLen - 1) |->
                        IF AltBit(k + 1) = 1 THEN 4095 ELSE 0]
    /\ hwCycle = <<WordZero>>
    /\ adcReads = WarmupReads + 2 * BUFFER_BITS
    /\ hwReads = 2 * BUFFER_BITS
    /\ pc = IF build = "part_000" THEN "flush" ELSE "print"
    /\ entropyBuffer = DirectBuffer(AltAccepted)
    /\ collectedBits = BUFFER_BITS
    /\ lastBit = 1
    /\ hasLastBit = FALSE
    /\ adcSeed = [k \in 0..(WordBits - 1) |-> AltBit(2 * BUFFER_BITS - k)]
    /\ rawBit = 0
    /\ vnReturn = TRUE
    /\ correctedBit = 0
    /\ digest \in TestDigests
    /\ i = 0
    /\ outputBuffer = <<>>
    /\ serialOut = <<>>
    /\ stall = 0
    /\ outOfBounds = FALSE
    /\ rawCount = 2 * BUFFER_BITS
    /\ prevRaw = 1
    /\ alternating = TRUE
    /\ unequalPairs = TRUE
    /\ constant = FALSE
    /\ unequalCount = BUFFER_BITS
    /\ accepted = AltAccepted
    /\ resetAt = 0
    /\ emitAt = <<>>

NextHex ==
    \/ SinkBusy
    \/ HashAndOutput_Print
    \/ HashAndOutput_Println
    \/ HashAndOutput_Flush
    \/ HashAndOutput_Sprintf
    \/ HashAndOutput_PrintBuffer
    \/ HashAndOutput_Reset

SpecHex == InitHex /\ [][NextHex]_vars

UpperHex == {HexChars[k] : k \in 1..16}

(***************************************************************************)
(* C10  (under SpecHex)  Both encoders write, for every digest, the 64     *)
(* upper-case hexadecimal characters of its 32 bytes in order, two per     *)
(* byte, the high nibble first, a leading 0 for bytes below 0x10, no       *)
(* separators, and then the line break; while they work, what is written   *)
(* or formatted is the encoding of the bytes done so far.  The zero digest *)
(* gives 64 times "0"; a digest that begins 0xFF, 0x00 gives a line that   *)
(* begins FF00.                                                            *)
(***************************************************************************)
C10_HexLine ==
    /\ pc = "print" => serialOut = HexText(digest, i)
    /\ pc = "println" => serialOut = HexText(digest, DigestLen)
    /\ pc = "sprintf" => (outputBuffer = HexText(digest, i) /\ serialOut = <<>>)
    /\ pc = "printbuf" =>
         (outputBuffer = HexText(digest, DigestLen) /\ serialOut = <<>>)
    /\ pc \in {"reset", "delay"} =>
         /\ serialOut = RefLine(digest)
         /\ Len(serialOut) = 2 * DigestLen + 2
         /\ \A k \in 1..(2 * DigestLen) : serialOut[k] \in UpperHex
         /\ \A j \in 0..(DigestLen - 1) :
              /\ serialOut[2 * j + 1] = HexChars[(digest[j] \div 16) + 1]
              /\ serialOut[2 * j + 2] = HexChars[(digest[j] % 16) + 1]
         /\ SubSeq(serialOut, 2 * DigestLen + 1, 2 * DigestLen + 2) = <<CR, LF>>
         /\ digest = ZeroDigest =>
              SubSeq(serialOut, 1, 2 * DigestLen) =
                  [k \in 1..(2 * DigestLen) |-> "0"]
         /\ (digest[0] = 255 /\ digest[1] = 0) =>
              SubSeq(serialOut, 1, 4) = <<"F", "F", "0", "0">>

\* the revision that prints byte by byte has written the line of a digest
\* that begins 0xFF, 0x00
C10_Witness ==
    /\ pc = "delay"
    /\ build = "sketch_gpsc"
    /\ digest[0] = 255
    /\ digest[1] = 0
    /\ SubSeq(serialOut, 1, 4) = <<"F", "F", "0", "0">>
    /\ Len(serialOut) = 2 * DigestLen + 2

(***************************************************************************)
(* C11.  Order of the digest, the output and the reset in hashAndOutput    *)
(***************************************************************************)
\* a step that hands characters to Serial
SerialWrite == serialOut' # serialOut

PushCounts == {0, 7, 8, BUFFER_BITS - 1, BUFFER_BITS}

\* the buffer after n pushes of 1
OnesBuffer(n) ==
    [j \in 0..(BufferBytes - 1) |->
        IF 8 * (j + 1) <= n THEN 255
        ELSE IF 8 * j < n THEN Pow2(n - 8 * j) - 1
        ELSE 0]

InitPush ==
    /\ build \in Builds
    /\ adcPattern = [k \in 0..(PatLen - 1) |-> 0]
    /\ hwCycle = <<WordZero>>
    /\ adcReads = WarmupReads
    /\ hwReads = 0
    /\ pc = "pack"
    /\ collectedBits \in PushCounts
    /\ entropyBuffer \in {ZeroBuffer, OnesBuffer(collectedBits)}
    /\ lastBit = 0
    /\ hasLastBit = FALSE
    /\ adcSeed = WordZero
    /\ rawBit = 0
    /\ vnReturn = TRUE
    /\ correctedBit \in Bit
    /\ digest = ZeroDigest
    /\ i = 0
    /\ outputBuffer = <<>>
    /\ serialOut = <<>>
    /\ stall = 0
    /\ outOfBounds = FALSE
    /\ rawCount = 0
    /\ prevRaw = 0
    /\ alternating = TRUE
    /\ unequalPairs = TRUE
    /\ constant = TRUE
    /\ unequalCount = 0
    /\ accepted = <<>>
    /\ resetAt = 0
    /\ emitAt = <<>>

NextPush ==
    \/ Pack
    \/ HashAndOutput_Return
    \/ HashAndOutput_Digest
    \/ SinkBusy
    \/ HashAndOutput_Print
    \/ HashAndOutput_Println
    \/ HashAndOutput_Flush
    \/ HashAndOutput_Sprintf
    \/ HashAndOutput_PrintBuffer
    \/ HashAndOutput_Reset
    \/ Delay

SpecPush == InitPush /\ [][NextPush]_vars

LastProcessedBit == IF pc = "correct" THEN prevRaw ELSE rawBit

\* C13: after n calls of the corrector since startup hasLastBit is set
\* exactly when n is odd, whatever the bits were, and lastBit is then the
\* n-th raw bit.
C13_DebiaserToggles ==
    /\ hasLastBit <=> (Processed % 2 = 1)
    /\ hasLastBit => lastBit = LastProcessedBit

\* pending after three calls, the second and third bit differ
C13_Witness ==
    /\ pc # "correct"
    /\ rawCount = 3
    /\ hasLastBit
    /\ lastBit = 1
    /\ prevRaw = 0

(***************************************************************************)
(* C14.  The shape of an iteration of loop()                               *)
(***************************************************************************)
\* the bit the buffer holds at position n
StoredBit(buf, n) == BitOf(buf[n \div 8], n % 8)

\* C14: a raw bit is read only at the start of an iteration and goes to
\* the corrector next; packBitIntoBuffer is entered exactly when the
\* corrector returned true, with the bit the corrector assigned (never an
\* unassigned correctedBit), which is the bit stored; hashAndOutput is
\* entered only from a push, directly after it, and once per push; no raw
\* bit is read in between.
C14_IterationShape ==
    [][/\ rawCount' # rawCount => pc = "read"
       /\ pc = "read" => (pc' = "correct" /\ rawCount' = rawCount + 1)
       /\ pc = "correct" =>
            /\ pc' \in {"pack", "delay", "read"}
            /\ (pc' = "pack") <=> vnReturn'
            /\ vnReturn' => (correctedBit' \in Bit
                             /\ accepted' = Append(accepted, correctedBit'))
            /\ ~vnReturn' => accepted' = accepted
       /\ pc' = "pack" => pc = "correct"
       /\ pc = "pack" =>
            /\ vnReturn
            /\ correctedBit \in Bit
            /\ correctedBit = Last(accepted)
            /\ collectedBits' = collectedBits + 1
            /\ StoredBit(entropyBuffer', collectedBits) = correctedBit
            /\ pc' = "hash"
       /\ pc' = "hash" => pc = "pack"
       /\ pc = "hash" => pc' \in {"delay", "flush", "print"}
       /\ pc \in Emitting => pc' \in (Emitting \cup {"delay"})]_vars

\* a push after some pairs were rejected, hashAndOutput about to run
C14_Witness ==
    /\ pc = "hash"
    /\ vnReturn
    /\ collectedBits = 3
    /\ rawCount > 6
    /\ correctedBit = 0

(***************************************************************************)
(* C15.  The pause at the end of an iteration                              *)
(***************************************************************************)
\* C15: every iteration of loop() ends with the pause: control comes to
\* the sampling of a raw bit only from setup() or from delayMicroseconds,
\* whether or not the corrector returned a bit in the iteration before.
C15_PauseEveryIteration ==
    [][(pc' = "read" /\ pc # "read") => pc \in {"setup", "delay"}]_vars

(***************************************************************************)
(* C16.  No pair of raw bits lies across the end of a block                *)
(***************************************************************************)
\* C16: whenever collectedBits changes, by a push or by the reset, the
\* corrector holds no pending bit before and after the step; it holds none
\* anywhere between the push and the end of hashAndOutput, and the reset
\* comes after an even number of raw bits, so that the first raw bit read
\* after a digest starts a new pair.
C16_NoPendingBitAtBlockEnd ==
    [][/\ collectedBits' # collectedBits => (~hasLastBit /\ ~hasLastBit')
       /\ pc \in ({"pack", "hash"} \cup Emitting) => ~hasLastBit
       /\ (pc = "reset" /\ pc' # "reset") =>
            (rawCount % 2 = 0 /\ ~hasLastBit')]_vars

\* the first raw bit after a digest is pending as the first of a pair
C16_Witness ==
    /\ Len(emitAt) = 1
    /\ rawCount = emitAt[1] + 1
    /\ pc # "correct"
    /\ hasLastBit
    /\ lastBit = rawBit
    /\ collectedBits = 0

(***************************************************************************)
(* C17.  readHybridNoiseBit on its own.  After WordBits calls or more the  *)
(* register holds the low bits of the last WordBits samples, which can be  *)
(* any 32-bit value; one call is made from each of a set of such values.   *)
(***************************************************************************)
Seeds ==
    {WordZero, WordOnes, WordTop, ToWord(1), WordOr(WordTop, ToWord(1)),
     [k \in 0..(WordBits - 1) |-> k % 2]}

InitBit ==
    /\ build \in Builds
    /\ adcPattern \in [0..(PatLen - 1) -> Samples]
    /\ hwCycle \in HwCycles
    /\ adcReads \in (WarmupReads + WordBits)..(WarmupReads + WordBits + 1)
    /\ hwReads \in WordBits..(WordBits + Len(hwCycle) - 1)
    /\ pc = "read"
    /\ entropyBuffer = ZeroBuffer
    /\ collectedBits = 0
    /\ lastBit = 0
    /\ hasLastBit = FALSE
    /\ adcSeed \in Seeds
    /\ rawBit = 0
    /\ vnReturn = FALSE
    /\ correctedBit = Uninit
    /\ digest = ZeroDigest
    /\ i = 0
    /\ outputBuffer = <<>>
    /\ serialOut = <<>>
    /\ stall = 0
    /\ outOfBounds = FALSE
    /\ rawCount = WordBits
    /\ prevRaw = 0
    /\ alternating = FALSE
    /\ unequalPairs = FALSE
    /\ constant = FALSE
    /\ unequalCount = 0
    /\ accepted = <<>>
    /\ resetAt = 0
    /\ emitAt = <<>>

NextBit == ReadHybridNoiseBit

SpecBit == InitBit /\ [][NextBit]_vars

\* the sample and the hardware word of the latest call
LastSample == adcPattern[(adcReads - 1) % PatLen]

LastWord == hwCycle[((hwReads - 1) % Len(hwCycle)) + 1]

\* C17: whatever the register held before the call, the bit returned by
\* readHybridNoiseBit is the low bit of the sample XOR the low bit of the
\* hardware word; the earlier samples, and the bit the shift drops at
\* the top, have no part in it.
C17_RawBitIsXorOfLowBits ==
    pc = "correct" =>
        /\ rawBit = ((LastSample % 2) + LastWord[0]) % 2
        /\ adcSeed[0] = LastSample % 2

\* the register held 0x80000001: the top bit is dropped, the earlier low
\* bit is now bit 1, the sample is even, the hardware word odd
C17_Witness ==
    /\ pc = "correct"
    /\ adcSeed[WordBits - 1] = 0
    /\ adcSeed[1] = 1
    /\ adcSeed[0] = 0
    /\ LastSample % 2 = 0
    /\ LastWord[0] = 1
    /\ rawBit = 1

(***************************************************************************)
(* C18.  Raw bits per digest                                               *)
(***************************************************************************)
\* raw bits that go into one digest at the least: two per accepted bit
RawPerBlock == 2 * BUFFER_BITS

\* C18: every digest comes on an even count of raw bits; the first comes
\* after RawPerBlock raw bits or more, and so does each one after the one
\* before it; after n raw bits at most n \div RawPerBlock digests were
\* written and at most n \div 2 bits accepted.
C18_RawBitsPerDigest ==
    /\ \A n \in 1..Len(emitAt) :
         /\ emitAt[n] % 2 = 0
         /\ emitAt[n] >= RawPerBlock
         /\ n > 1 => emitAt[n] - emitAt[n - 1] >= RawPerBlock
    /\ pc \in Emitting =>
         /\ rawCount % 2 = 0
         /\ rawCount >= RawPerBlock * (resetAt \div BUFFER_BITS + 1)
    /\ Len(emitAt) <= Processed \div RawPerBlock
    /\ Len(accepted) <= Processed \div 2

\* two digests as close to each other as they can come
C18_Witness ==
    /\ Len(emitAt) = 2
    /\ emitAt[1] = RawPerBlock
    /\ emitAt[2] = 2 * RawPerBlock
    /\ Len(accepted) = rawCount \div 2

(***************************************************************************)
(* C19.  Progress.  The runtime calls loop() again whenever it returns,    *)
(* and a busy Serial accepts the characters after at most MaxStall         *)
(* refusals, so a step that is possible is eventually taken.  The raw      *)
(* stream is cut off after MaxRaw bits.  The streams taken are those of    *)
(* the samples alone (hardware word 0) that start with an unequal pair:    *)
(* with PatLen = 4 every pair is unequal, or every second one.             *)
(***************************************************************************)
InitLive ==
    /\ Init
    /\ hwCycle = <<WordZero>>
    /\ adcPattern[0] % 2 = 0
    /\ adcPattern[1] % 2 = 1

SpecLive == InitLive /\ [][Next]_vars /\ WF_vars(Next)

\* the digests that MaxRaw raw bits can give
MaxBlocks == MaxRaw \div RawPerBlock

\* C19: no line is written before BUFFER_BITS unequal aligned pairs were
\* sampled for it, and once the n-th BUFFER_BITS unequal aligned pairs
\* have been sampled the n-th line is eventually written; so from any
\* state BUFFER_BITS further unequal aligned pairs lead to a further line.
C19_FullBlockLeadsToDigest ==
    /\ [](BUFFER_BITS * Len(emitAt) <= unequalCount)
    /\ \A n \in 1..MaxBlocks :
         (unequalCount >= BUFFER_BITS * n) ~> (Len(emitAt) >= n)

\* a line written after a stream in which every second pair was rejected
C19_Witness ==
    /\ Len(emitAt) = 1
    /\ unequalCount = BUFFER_BITS
    /\ rawCount = 2 * RawPerBlock
    /\ pc = "delay"
====
